---- MODULE Spec2Model ----
(***************************************************************************)
(* Order lifecycle, payment settlement and pickup-code redemption of the   *)
(* Khana Management System backend (src/backend/flask_server.py).          *)
(*                                                                         *)
(* The MongoDB collections are the state: orders and payments are          *)
(* sequences whose index is the document's identifier, canteens and        *)
(* menuitems are functions from identifier to document.  Every route       *)
(* handler is one action; resp records the request just answered and the   *)
(* HTTP answer it got, so that acceptance and rejection are observable.    *)
(***************************************************************************)
EXTENDS Integers, Sequences, FiniteSets, TLC

VARIABLES orders, payments, canteens, menuitems, now, resp, inflight, completions

vars == <<orders, payments, canteens, menuitems, now, resp, inflight, completions>>

----------------------------------------------------------------------------
(* Bounds of the model *)

MaxOrders == 1
MaxPayments == 2
MaxInflight == 2

----------------------------------------------------------------------------
(* Principals: g.user as attached by the protect middleware *)

Users == {"s1", "s2", "k1", "k2", "a1"}

Role(u) ==
    CASE u \in {"s1", "s2"} -> "STUDENT"
      [] u \in {"k1", "k2"} -> "CANTEEN"
      [] OTHER -> "ADMIN"

\* g.user.get('canteenId'): only canteen staff carry one
UserCanteen(u) ==
    CASE u = "k1" -> "c1"
      [] u = "k2" -> "c2"
      [] OTHER -> "none"

NoUser == "anonymous"

\* a decorator that lets every role through
authorizeAnyRole(u, roles) == TRUE

authorize(u, roles) == Role(u) \in roles

----------------------------------------------------------------------------
(* Values *)

NoCode == <<>>
NoTxn == "null"

RECURSIVE Digits(_)
\* str(n) for n >= 0, as the sequence of its decimal digits
Digits(n) == IF n < 10 THEN <<n>> ELSE Append(Digits(n \div 10), n % 10)

MinPickupCode == 100000
MaxPickupCode == 999999

\* random.randint(100000, 999999): the two ends of the range stand for it
PickupCodeDraws == {MinPickupCode, MaxPickupCode}

\* a generator that can return a number of five digits
generate_pickup_codeFromBelow == {Digits(n) : n \in {MinPickupCode - 1, MaxPickupCode}}

generate_pickup_code == {Digits(n) : n \in PickupCodeDraws}

OrderStatuses ==
    {"CREATED", "PAID", "ACCEPTED", "PREPARING", "READY", "COMPLETED",
     "CANCELLED", "FAILED"}

PaymentStatuses == {"PENDING", "SUCCESS", "FAILED"}

OrderIds == 1..MaxOrders
PaymentIds == 1..MaxPayments

----------------------------------------------------------------------------
(* Answers *)

Answer(op, u, id, arg, code, msg) ==
    [op |-> op, caller |-> u, id |-> id, arg |-> arg, code |-> code, msg |-> msg]

NoAnswer == Answer("none", NoUser, 0, <<>>, 0, "")

Succeeded(r) == r.code \in {200, 201}

\* a guard answered: nothing is written
Reject(op, u, id, arg, code, msg) ==
    /\ resp' = Answer(op, u, id, arg, code, msg)
    /\ UNCHANGED <<orders, payments, canteens, menuitems, now, inflight, completions>>

----------------------------------------------------------------------------
(* create_order *)

NoFault == <<0, "">>

\* the item checks applied to the first requested item only
ItemFaultFirstOnly(items, cid, i) ==
    IF i > Len(items) \/ i > 1 THEN NoFault
    ELSE LET m == items[i].menuItem IN
         IF m \notin DOMAIN menuitems THEN <<404, "Menu item not found">>
         ELSE IF ~menuitems[m].isAvailable THEN <<400, "is currently unavailable">>
         ELSE IF menuitems[m].canteenId # cid THEN <<400, "does not belong to this canteen">>
         ELSE NoFault

RECURSIVE ItemFault(_, _, _)
\* the loop over the requested items: the answer for the first item that
\* fails a check, NoFault when every item passes
ItemFault(items, cid, i) ==
    IF i > Len(items) THEN NoFault
    ELSE LET m == items[i].menuItem IN
         IF m \notin DOMAIN menuitems THEN <<404, "Menu item not found">>
         ELSE IF ~menuitems[m].isAvailable THEN <<400, "is currently unavailable">>
         ELSE IF menuitems[m].canteenId # cid THEN <<400, "does not belong to this canteen">>
         ELSE ItemFault(items, cid, i + 1)

RECURSIVE SumAmountUnitPrices(_, _)
\* the total as the sum of the unit prices, the quantity left out
SumAmountUnitPrices(items, i) ==
    IF i > Len(items) THEN 0
    ELSE menuitems[items[i].menuItem].price + SumAmountUnitPrices(items, i + 1)

RECURSIVE SumAmount(_, _)
SumAmount(items, i) ==
    IF i > Len(items) THEN 0
    ELSE menuitems[items[i].menuItem].price * items[i].quantity + SumAmount(items, i + 1)

RECURSIVE SumQuantity(_, _)
SumQuantity(items, i) ==
    IF i > Len(items) THEN 0
    ELSE items[i].quantity + SumQuantity(items, i + 1)

OrderItems(items) ==
    [i \in 1..Len(items) |->
        [menuItem |-> items[i].menuItem,
         name |-> menuitems[items[i].menuItem].name,
         price |-> menuitems[items[i].menuItem].price,
         quantity |-> items[i].quantity,
         isVeg |-> menuitems[items[i].menuItem].isVeg]]

DefaultMaxBulkSize == 50

\* canteen['maxBulkSize'] without the default
BulkThresholdNoDefault(c) == c.maxBulkSize

\* canteen.get('maxBulkSize', 50): 0 - 1 stands for an absent field
BulkThreshold(c) == IF c.maxBulkSize < 0 THEN DefaultMaxBulkSize ELSE c.maxBulkSize

create_order(u, cid, items) ==
    IF cid \notin DOMAIN canteens THEN
        Reject("create_order", u, 0, <<cid, items>>, 404, "Canteen not found")
    ELSE IF ~canteens[cid].isOpen THEN
        Reject("create_order", u, 0, <<cid, items>>, 400, "Canteen is currently closed")
    ELSE IF ~canteens[cid].isOnlineOrdersEnabled THEN
        Reject("create_order", u, 0, <<cid, items>>, 400, "Online orders are currently disabled for this canteen")
    ELSE IF ItemFault(items, cid, 1) # NoFault THEN
        Reject("create_order", u, 0, <<cid, items>>,
               ItemFault(items, cid, 1)[1], ItemFault(items, cid, 1)[2])
    ELSE
        /\ Len(orders) < MaxOrders
        /\ orders' = Append(orders,
              [userId |-> u,
               canteenId |-> cid,
               items |-> OrderItems(items),
               totalAmount |-> SumAmount(items, 1),
               isBulkOrder |-> SumQuantity(items, 1) > BulkThreshold(canteens[cid]),
               status |-> "CREATED",
               pickupCode |-> NoCode,
               pickupCodeUsed |-> FALSE,
               updatedAt |-> now])
        /\ completions' = Append(completions, 0)
        /\ resp' = Answer("create_order", u, Len(orders) + 1, <<cid, items>>, 201, "")
        /\ UNCHANGED <<payments, canteens, menuitems, now, inflight>>

----------------------------------------------------------------------------
(* Staff transitions *)

Staff == {"CANTEEN", "ADMIN"}

\* "Check if user is canteen owner"
NotCanteenOwner(u, o) == Role(u) = "CANTEEN" /\ UserCanteen(u) # o.canteenId

SetOrder(oid, o) ==
    orders' = [orders EXCEPT ![oid] = o]

accept_order(u, oid) ==
    IF ~authorize(u, Staff) THEN
        Reject("accept", u, oid, <<>>, 403, "User role is not authorized to access this route")
    ELSE IF oid \notin DOMAIN orders THEN
        Reject("accept", u, oid, <<>>, 404, "Order not found")
    ELSE IF NotCanteenOwner(u, orders[oid]) THEN
        Reject("accept", u, oid, <<>>, 403, "Not authorized to update this order")
    ELSE IF orders[oid].status # "PAID" THEN
        Reject("accept", u, oid, <<>>, 400, "Only paid orders can be accepted")
    ELSE
        /\ SetOrder(oid, [orders[oid] EXCEPT !.status = "ACCEPTED", !.updatedAt = now])
        /\ resp' = Answer("accept", u, oid, <<>>, 200, "")
        /\ UNCHANGED <<payments, canteens, menuitems, now, inflight, completions>>

\* prepare_order that also takes an order that is only PAID
prepare_orderFromPaid(u, oid) ==
    IF ~authorize(u, Staff) THEN
        Reject("prepare", u, oid, <<>>, 403, "User role is not authorized to access this route")
    ELSE IF oid \notin DOMAIN orders THEN
        Reject("prepare", u, oid, <<>>, 404, "Order not found")
    ELSE IF NotCanteenOwner(u, orders[oid]) THEN
        Reject("prepare", u, oid, <<>>, 403, "Not authorized to update this order")
    ELSE IF orders[oid].status \notin {"PAID", "ACCEPTED"} THEN
        Reject("prepare", u, oid, <<>>, 400, "Only accepted orders can be marked as preparing")
    ELSE
        /\ SetOrder(oid, [orders[oid] EXCEPT !.status = "PREPARING", !.updatedAt = now])
        /\ resp' = Answer("prepare", u, oid, <<>>, 200, "")
        /\ UNCHANGED <<payments, canteens, menuitems, now, inflight, completions>>

prepare_order(u, oid) ==
    IF ~authorize(u, Staff) THEN
        Reject("prepare", u, oid, <<>>, 403, "User role is not authorized to access this route")
    ELSE IF oid \notin DOMAIN orders THEN
        Reject("prepare", u, oid, <<>>, 404, "Order not found")
    ELSE IF NotCanteenOwner(u, orders[oid]) THEN
        Reject("prepare", u, oid, <<>>, 403, "Not authorized to update this order")
    ELSE IF orders[oid].status # "ACCEPTED" THEN
        Reject("prepare", u, oid, <<>>, 400, "Only accepted orders can be marked as preparing")
    ELSE
        /\ SetOrder(oid, [orders[oid] EXCEPT !.status = "PREPARING", !.updatedAt = now])
        /\ resp' = Answer("prepare", u, oid, <<>>, 200, "")
        /\ UNCHANGED <<payments, canteens, menuitems, now, inflight, completions>>

\* ready_order that draws a new pickup code whatever the order holds
ready_orderAlwaysFresh(u, oid) ==
    IF ~authorize(u, Staff) THEN
        Reject("ready", u, oid, <<>>, 403, "User role is not authorized to access this route")
    ELSE IF oid \notin DOMAIN orders THEN
        Reject("ready", u, oid, <<>>, 404, "Order not found")
    ELSE IF NotCanteenOwner(u, orders[oid]) THEN
        Reject("ready", u, oid, <<>>, 403, "Not authorized to update this order")
    ELSE IF orders[oid].status # "PREPARING" THEN
        Reject("ready", u, oid, <<>>, 400, "Only preparing orders can be marked as ready")
    ELSE
        \E fresh \in generate_pickup_code :
            /\ SetOrder(oid, [orders[oid] EXCEPT
                  !.status = "READY", !.pickupCode = fresh, !.updatedAt = now])
            /\ resp' = Answer("ready", u, oid, <<>>, 200, "")
            /\ UNCHANGED <<payments, canteens, menuitems, now, inflight, completions>>

ready_order(u, oid) ==
    IF ~authorize(u, Staff) THEN
        Reject("ready", u, oid, <<>>, 403, "User role is not authorized to access this route")
    ELSE IF oid \notin DOMAIN orders THEN
        Reject("ready", u, oid, <<>>, 404, "Order not found")
    ELSE IF NotCanteenOwner(u, orders[oid]) THEN
        Reject("ready", u, oid, <<>>, 403, "Not authorized to update this order")
    ELSE IF orders[oid].status # "PREPARING" THEN
        Reject("ready", u, oid, <<>>, 400, "Only preparing orders can be marked as ready")
    ELSE
        \E fresh \in generate_pickup_code :
            /\ SetOrder(oid, [orders[oid] EXCEPT
                  !.status = "READY",
                  !.pickupCode = IF orders[oid].pickupCode # NoCode
                                 THEN orders[oid].pickupCode ELSE fresh,
                  !.updatedAt = now])
            /\ resp' = Answer("ready", u, oid, <<>>, 200, "")
            /\ UNCHANGED <<payments, canteens, menuitems, now, inflight, completions>>

\* complete_order without the comparison of the supplied code
CompleteGuardAnyCode(o, code) ==
    IF o.status # "READY" THEN "Only ready orders can be completed"
    ELSE IF o.pickupCodeUsed THEN "Pickup code already used"
    ELSE ""

\* complete_order without the test of the used-flag
CompleteGuardIgnoresUsed(o, code) ==
    IF o.status # "READY" THEN "Only ready orders can be completed"
    ELSE IF o.pickupCode # code THEN "Invalid pickup code"
    ELSE ""

\* the three guards on the stored order that complete_order applies after
\* the authorization checks: the message of the first that fails, "" if none
CompleteGuard(o, code) ==
    IF o.status # "READY" THEN "Only ready orders can be completed"
    ELSE IF o.pickupCodeUsed THEN "Pickup code already used"
    ELSE IF o.pickupCode # code THEN "Invalid pickup code"
    ELSE ""

\* complete_order that marks the code used before it compares the code
complete_orderMarksFirst(u, oid, code) ==
    IF ~authorize(u, Staff) THEN
        Reject("complete", u, oid, code, 403, "User role is not authorized to access this route")
    ELSE IF oid \notin DOMAIN orders THEN
        Reject("complete", u, oid, code, 404, "Order not found")
    ELSE IF NotCanteenOwner(u, orders[oid]) THEN
        Reject("complete", u, oid, code, 403, "Not authorized to update this order")
    ELSE IF CompleteGuard(orders[oid], code) = "Invalid pickup code" THEN
        /\ SetOrder(oid, [orders[oid] EXCEPT !.pickupCodeUsed = TRUE])
        /\ resp' = Answer("complete", u, oid, code, 400, "Invalid pickup code")
        /\ UNCHANGED <<payments, canteens, menuitems, now, inflight, completions>>
    ELSE IF CompleteGuard(orders[oid], code) # "" THEN
        Reject("complete", u, oid, code, 400, CompleteGuard(orders[oid], code))
    ELSE
        /\ SetOrder(oid, [orders[oid] EXCEPT
              !.status = "COMPLETED", !.pickupCodeUsed = TRUE, !.updatedAt = now])
        /\ completions' = [completions EXCEPT ![oid] = @ + 1]
        /\ resp' = Answer("complete", u, oid, code, 200, "")
        /\ UNCHANGED <<payments, canteens, menuitems, now, inflight>>

complete_order(u, oid, code) ==
    IF ~authorize(u, Staff) THEN
        Reject("complete", u, oid, code, 403, "User role is not authorized to access this route")
    ELSE IF oid \notin DOMAIN orders THEN
        Reject("complete", u, oid, code, 404, "Order not found")
    ELSE IF NotCanteenOwner(u, orders[oid]) THEN
        Reject("complete", u, oid, code, 403, "Not authorized to update this order")
    ELSE IF CompleteGuard(orders[oid], code) # "" THEN
        Reject("complete", u, oid, code, 400, CompleteGuard(orders[oid], code))
    ELSE
        /\ SetOrder(oid, [orders[oid] EXCEPT
              !.status = "COMPLETED", !.pickupCodeUsed = TRUE, !.updatedAt = now])
        /\ completions' = [completions EXCEPT ![oid] = @ + 1]
        /\ resp' = Answer("complete", u, oid, code, 200, "")
        /\ UNCHANGED <<payments, canteens, menuitems, now, inflight>>

\* "Can't cancel orders that are already preparing or ready"
NotCancellable == {"PREPARING", "READY", "COMPLETED"}

cancel_order(u, oid) ==
    IF oid \notin DOMAIN orders THEN
        Reject("cancel", u, oid, <<>>, 404, "Order not found")
    ELSE IF Role(u) = "STUDENT" /\ orders[oid].userId # u THEN
        Reject("cancel", u, oid, <<>>, 403, "Not authorized to cancel this order")
    ELSE IF orders[oid].status \in NotCancellable THEN
        Reject("cancel", u, oid, <<>>, 400, "Cannot cancel order at this stage")
    ELSE
        /\ SetOrder(oid, [orders[oid] EXCEPT !.status = "CANCELLED", !.updatedAt = now])
        /\ resp' = Answer("cancel", u, oid, <<>>, 200, "")
        /\ UNCHANGED <<payments, canteens, menuitems, now, inflight, completions>>

----------------------------------------------------------------------------
(* Payments *)

\* find_one({'orderId': oid, 'status': {'$in': ['PENDING', 'SUCCESS']}})
ActiveStatuses == {"PENDING", "SUCCESS"}

ActivePayments(oid) ==
    {p \in DOMAIN payments :
        payments[p].orderId = oid /\ payments[p].status \in ActiveStatuses}

\* initiate_payment without the lookup of an existing payment
InitiateGuardNoLookup(u, oid) ==
    IF oid \notin DOMAIN orders THEN <<404, "Order not found">>
    ELSE IF orders[oid].userId # u THEN <<403, "Not authorized to pay for this order">>
    ELSE IF orders[oid].status # "CREATED" THEN <<400, "Order is not in a payable state">>
    ELSE NoFault

\* the guards of initiate_payment: the answer of the first that fails,
\* NoFault when the payment may be created
InitiateGuard(u, oid) ==
    IF oid \notin DOMAIN orders THEN <<404, "Order not found">>
    ELSE IF orders[oid].userId # u THEN <<403, "Not authorized to pay for this order">>
    ELSE IF orders[oid].status # "CREATED" THEN <<400, "Order is not in a payable state">>
    ELSE IF ActivePayments(oid) # {} THEN <<400, "Payment already initiated for this order">>
    ELSE NoFault

\* a payment record whose amount is not the one handed in
NewPaymentOtherAmount(u, oid, amount) ==
    [orderId |-> oid,
     userId |-> u,
     amount |-> 0,
     status |-> "PENDING",
     transactionId |-> NoTxn,
     updatedAt |-> now]

NewPayment(u, oid, amount) ==
    [orderId |-> oid,
     userId |-> u,
     amount |-> amount,
     status |-> "PENDING",
     transactionId |-> NoTxn,
     updatedAt |-> now]

initiate_payment(u, oid) ==
    IF InitiateGuard(u, oid) # NoFault THEN
        Reject("initiate_payment", u, oid, <<>>, InitiateGuard(u, oid)[1], InitiateGuard(u, oid)[2])
    ELSE
        /\ Len(payments) < MaxPayments
        /\ payments' = Append(payments, NewPayment(u, oid, orders[oid].totalAmount))
        /\ resp' = Answer("initiate_payment", u, oid, <<Len(payments) + 1>>, 201, "")
        /\ UNCHANGED <<orders, canteens, menuitems, now, inflight, completions>>

\* f"TXN{int(datetime.utcnow().timestamp() * 1000)}"
MockTransactionId == "TXN"

\* the guards of confirm_payment
\* the checks of confirm_payment without the one of the payment status
ConfirmGuardAnyStatus(u, pid) ==
    IF pid \notin DOMAIN payments THEN <<404, "Payment not found">>
    ELSE IF payments[pid].userId # u THEN <<403, "Not authorized">>
    ELSE NoFault

ConfirmGuard(u, pid) ==
    IF pid \notin DOMAIN payments THEN <<404, "Payment not found">>
    ELSE IF payments[pid].userId # u THEN <<403, "Not authorized">>
    ELSE IF payments[pid].status # "PENDING" THEN <<400, "Payment is not in pending state">>
    ELSE NoFault

\* an order write that sets PAID and stores no pickup code
PaidOrderWithoutCode(o, code) ==
    [o EXCEPT !.status = "PAID", !.updatedAt = now]

\* update_one on the order of a settled payment: status PAID and a new code
PaidOrder(o, code) ==
    [o EXCEPT !.status = "PAID", !.pickupCode = code, !.updatedAt = now]

confirm_payment(u, pid) ==
    IF ConfirmGuard(u, pid) # NoFault THEN
        Reject("confirm_payment", u, pid, <<>>, ConfirmGuard(u, pid)[1], ConfirmGuard(u, pid)[2])
    ELSE
        \E code \in generate_pickup_code :
            /\ payments' = [payments EXCEPT ![pid] =
                  [@ EXCEPT !.status = "SUCCESS",
                            !.transactionId = MockTransactionId,
                            !.updatedAt = now]]
            /\ SetOrder(payments[pid].orderId, PaidOrder(orders[payments[pid].orderId], code))
            /\ resp' = Answer("confirm_payment", u, pid, <<>>, 200, "")
            /\ UNCHANGED <<canteens, menuitems, now, inflight, completions>>

\* find_one({'orderId': oid}): the first payment stored for the order, 0 if none
PaymentOfOrder(oid) ==
    IF \E p \in DOMAIN payments : payments[p].orderId = oid
    THEN CHOOSE p \in DOMAIN payments :
            /\ payments[p].orderId = oid
            /\ \A q \in DOMAIN payments : payments[q].orderId = oid => p <= q
    ELSE 0

\* a mapping that takes only TXN_FAILURE for a failure
WebhookStatusFailureOnly(status) == IF status = "TXN_FAILURE" THEN "FAILED" ELSE "SUCCESS"

\* new_status = 'SUCCESS' if status == 'TXN_SUCCESS' else 'FAILED'
WebhookStatus(status) == IF status = "TXN_SUCCESS" THEN "SUCCESS" ELSE "FAILED"

\* a payment write that also overwrites the amount
SettledPaymentZeroAmount(p, status, txn) ==
    [p EXCEPT !.status = WebhookStatus(status), !.transactionId = txn,
              !.amount = 0, !.updatedAt = now]

\* the payment write of paytm_webhook
SettledPayment(p, status, txn) ==
    [p EXCEPT !.status = WebhookStatus(status), !.transactionId = txn, !.updatedAt = now]

\* an order write that marks the order paid whatever the provider said
WebhookOrderAlwaysPaid(o, newStatus, code) == PaidOrder(o, code)

\* the order write of paytm_webhook
WebhookOrder(o, newStatus, code) ==
    IF newStatus = "SUCCESS" THEN PaidOrder(o, code)
    ELSE [o EXCEPT !.status = "FAILED", !.updatedAt = now]

\* paytm_webhook that settles the order also when it finds no payment
paytm_webhookUnchecked(oid, status, txn) ==
    \E code \in generate_pickup_code :
        /\ IF PaymentOfOrder(oid) = 0
           THEN UNCHANGED payments
           ELSE payments' = [payments EXCEPT ![PaymentOfOrder(oid)] =
                   SettledPayment(@, status, txn)]
        /\ IF oid \in DOMAIN orders
           THEN SetOrder(oid, WebhookOrder(orders[oid], WebhookStatus(status), code))
           ELSE UNCHANGED orders
        /\ resp' = Answer("paytm_webhook", NoUser, oid, <<status, txn>>, 200, "Webhook processed")
        /\ UNCHANGED <<canteens, menuitems, now, inflight, completions>>

paytm_webhook(oid, status, txn) ==
    IF PaymentOfOrder(oid) = 0 THEN
        Reject("paytm_webhook", NoUser, oid, <<status, txn>>, 404, "Payment not found")
    ELSE
        \E code \in generate_pickup_code :
            /\ payments' = [payments EXCEPT ![PaymentOfOrder(oid)] =
                  SettledPayment(@, status, txn)]
            /\ IF oid \in DOMAIN orders
               THEN SetOrder(oid, WebhookOrder(orders[oid], WebhookStatus(status), code))
               ELSE UNCHANGED orders
            /\ resp' = Answer("paytm_webhook", NoUser, oid, <<status, txn>>, 200, "Webhook processed")
            /\ UNCHANGED <<canteens, menuitems, now, inflight, completions>>

----------------------------------------------------------------------------------------------------------------------------------------
(* Handlers whose read and write are separate steps.  A handler in flight  *)
(* holds what it read; other requests run between its steps.               *)

Idle == [op |-> "idle"]

\* a new request takes the first free worker
FreeSlot(i) ==
    /\ inflight[i] = Idle
    /\ \A j \in 1..(i - 1) : inflight[j] # Idle

\* initiate_payment up to and including the lookup of an existing payment
initiate_begin(i, u, oid) ==
    /\ FreeSlot(i)
    /\ IF InitiateGuard(u, oid) # NoFault THEN
           Reject("initiate_payment", u, oid, <<>>, InitiateGuard(u, oid)[1], InitiateGuard(u, oid)[2])
       ELSE
           /\ inflight' = [inflight EXCEPT ![i] =
                 [op |-> "initiate_payment", caller |-> u, oid |-> oid,
                  amount |-> orders[oid].totalAmount]]
           /\ UNCHANGED <<orders, payments, canteens, menuitems, now, resp, completions>>

\* initiate_payment from insert_one on
initiate_insert(i) ==
    /\ inflight[i].op = "initiate_payment"
    /\ Len(payments) < MaxPayments
    /\ payments' = Append(payments,
          NewPayment(inflight[i].caller, inflight[i].oid, inflight[i].amount))
    /\ resp' = Answer("initiate_payment", inflight[i].caller, inflight[i].oid,
                      <<Len(payments) + 1>>, 201, "")
    /\ inflight' = [inflight EXCEPT ![i] = Idle]
    /\ UNCHANGED <<orders, canteens, menuitems, now, completions>>

\* paytm_webhook up to and including the payment write
webhook_begin(i, oid, status, txn) ==
    /\ FreeSlot(i)
    /\ IF PaymentOfOrder(oid) = 0 THEN
           Reject("paytm_webhook", NoUser, oid, <<status, txn>>, 404, "Payment not found")
       ELSE
           /\ payments' = [payments EXCEPT ![PaymentOfOrder(oid)] =
                 SettledPayment(@, status, txn)]
           /\ inflight' = [inflight EXCEPT ![i] =
                 [op |-> "paytm_webhook", oid |-> oid, status |-> status, txn |-> txn]]
           /\ UNCHANGED <<orders, canteens, menuitems, now, resp, completions>>

\* paytm_webhook from the order lookup on
webhook_finish(i) ==
    /\ inflight[i].op = "paytm_webhook"
    /\ \E code \in generate_pickup_code :
          IF inflight[i].oid \in DOMAIN orders
          THEN SetOrder(inflight[i].oid,
                  WebhookOrder(orders[inflight[i].oid], WebhookStatus(inflight[i].status), code))
          ELSE UNCHANGED orders
    /\ resp' = Answer("paytm_webhook", NoUser, inflight[i].oid,
                      <<inflight[i].status, inflight[i].txn>>, 200, "Webhook processed")
    /\ inflight' = [inflight EXCEPT ![i] = Idle]
    /\ UNCHANGED <<payments, canteens, menuitems, now, completions>>

----------------------------------------------------------------------------
(* Requests tried *)

\* (canteenId, items) of the create_order requests: one that passes every
\* check, one for a closed canteen, one with an unavailable item
OrderRequests ==
    { <<"c1", <<[menuItem |-> "m1", quantity |-> 2], [menuItem |-> "m2", quantity |-> 1]>> >>,
      <<"c3", <<[menuItem |-> "m1", quantity |-> 1]>> >>,
      <<"c1", <<[menuItem |-> "m1", quantity |-> 1], [menuItem |-> "m4", quantity |-> 1]>> >> }

Creators == {"s1"}

\* callers of the payment routes, which compare the caller with the owner
\* only: the owner, another student, the admin
Payers == {"s1", "s2", "a1"}

\* callers of the staff routes, which look at the role and at the staff's
\* canteen only: a student, the staff of both canteens, the admin
Servers == {"s1", "k1", "k2", "a1"}

CodeRequests == generate_pickup_code \cup {NoCode}

ProviderStatuses == {"TXN_SUCCESS", "TXN_FAILURE"}

ProviderTxnIds == {"W1"}

Init ==
    /\ orders = <<>>
    /\ payments = <<>>
    /\ canteens =
          [c \in {"c1", "c2", "c3", "c4"} |->
              [isOpen |-> c # "c3",
               isOnlineOrdersEnabled |-> c # "c4",
               maxBulkSize |-> IF c = "c1" THEN 2 ELSE 0 - 1]]
    /\ menuitems =
          [m \in {"m1", "m2", "m3", "m4"} |->
              [canteenId |-> IF m = "m3" THEN "c2" ELSE "c1",
               name |-> m,
               price |-> CASE m = "m1" -> 50 [] m = "m2" -> 30 [] m = "m3" -> 20 [] OTHER -> 40,
               isAvailable |-> m # "m4",
               isVeg |-> m # "m2"]]
    /\ now = 0
    /\ resp = NoAnswer
    /\ inflight = [i \in 1..MaxInflight |-> Idle]
    /\ completions = <<>>

CreateOrder == \E u \in Creators, r \in OrderRequests : create_order(u, r[1], r[2])
InitiatePayment == \E u \in Payers, oid \in OrderIds : initiate_payment(u, oid)
ConfirmPayment == \E u \in Payers, pid \in PaymentIds : confirm_payment(u, pid)
PaytmWebhook == \E oid \in OrderIds, st \in ProviderStatuses, txn \in ProviderTxnIds : paytm_webhook(oid, st, txn)
AcceptOrder == \E u \in Servers, oid \in OrderIds : accept_order(u, oid)
PrepareOrder == \E u \in Servers, oid \in OrderIds : prepare_order(u, oid)
ReadyOrder == \E u \in Servers, oid \in OrderIds : ready_order(u, oid)
CompleteOrder == \E u \in Servers, oid \in OrderIds, code \in CodeRequests : complete_order(u, oid, code)
CancelOrder == \E u \in Users, oid \in OrderIds : cancel_order(u, oid)

\* every request is handled as one atomic step
Next ==
    \/ CreateOrder
    \/ InitiatePayment
    \/ ConfirmPayment
    \/ PaytmWebhook
    \/ AcceptOrder
    \/ PrepareOrder
    \/ ReadyOrder
    \/ CompleteOrder
    \/ CancelOrder

Spec == Init /\ [][Next]_vars

\* the callers of the interleaved runs: the owner and the staff of the canteen
RaceCallers == {"s1", "k1"}

InitiateBegin == \E i \in 1..MaxInflight, u \in RaceCallers, oid \in OrderIds : initiate_begin(i, u, oid)
InitiateInsert == \E i \in 1..MaxInflight : initiate_insert(i)
WebhookBegin == \E i \in 1..MaxInflight, oid \in OrderIds, st \in ProviderStatuses, txn \in ProviderTxnIds : webhook_begin(i, oid, st, txn)
WebhookFinish == \E i \in 1..MaxInflight : webhook_finish(i)
RaceConfirm == \E u \in RaceCallers, pid \in PaymentIds : confirm_payment(u, pid)
RaceAccept == \E u \in RaceCallers, oid \in OrderIds : accept_order(u, oid)
RacePrepare == \E u \in RaceCallers, oid \in OrderIds : prepare_order(u, oid)
RaceReady == \E u \in RaceCallers, oid \in OrderIds : ready_order(u, oid)
RaceComplete == \E u \in RaceCallers, oid \in OrderIds, code \in CodeRequests : complete_order(u, oid, code)
RaceCancel == \E u \in RaceCallers, oid \in OrderIds : cancel_order(u, oid)

\* initiate_payment and paytm_webhook take two steps each, with any other
\* request between them
NextRace ==
    \/ CreateOrder
    \/ InitiateBegin
    \/ InitiateInsert
    \/ WebhookBegin
    \/ WebhookFinish
    \/ RaceConfirm
    \/ RaceAccept
    \/ RacePrepare
    \/ RaceReady
    \/ RaceComplete
    \/ RaceCancel

SpecRace == Init /\ [][NextRace]_vars

----------------------------------------------------------------------------
(* Catalog routes used while ordering *)

\* {'$set': update_data}: the fields of data overwrite those of the document,
\* the protected keys left out
SetFields(doc, data, protected) ==
    [f \in DOMAIN doc |->
        IF f \in DOMAIN data /\ f \notin protected THEN data[f] ELSE doc[f]]

update_canteen(u, cid, data) ==
    IF ~authorize(u, Staff) THEN
        Reject("update_canteen", u, cid, data, 403, "User role is not authorized to access this route")
    ELSE IF cid \notin DOMAIN canteens THEN
        Reject("update_canteen", u, cid, data, 404, "Canteen not found")
    ELSE IF Role(u) = "CANTEEN" /\ UserCanteen(u) # cid THEN
        Reject("update_canteen", u, cid, data, 403, "Not authorized to update this canteen")
    ELSE
        /\ canteens' = [canteens EXCEPT ![cid] = SetFields(@, data, {"_id", "createdAt"})]
        /\ resp' = Answer("update_canteen", u, cid, data, 200, "")
        /\ UNCHANGED <<orders, payments, menuitems, now, inflight, completions>>

toggle_canteen_open(u, cid) ==
    IF ~authorize(u, Staff) THEN
        Reject("toggle_canteen_open", u, cid, <<>>, 403, "User role is not authorized to access this route")
    ELSE IF cid \notin DOMAIN canteens THEN
        Reject("toggle_canteen_open", u, cid, <<>>, 404, "Canteen not found")
    ELSE IF Role(u) = "CANTEEN" /\ UserCanteen(u) # cid THEN
        Reject("toggle_canteen_open", u, cid, <<>>, 403, "Not authorized to update this canteen")
    ELSE
        /\ canteens' = [canteens EXCEPT ![cid].isOpen = ~@]
        /\ resp' = Answer("toggle_canteen_open", u, cid, <<>>, 200, "")
        /\ UNCHANGED <<orders, payments, menuitems, now, inflight, completions>>

toggle_online_orders(u, cid) ==
    IF ~authorize(u, Staff) THEN
        Reject("toggle_online_orders", u, cid, <<>>, 403, "User role is not authorized to access this route")
    ELSE IF cid \notin DOMAIN canteens THEN
        Reject("toggle_online_orders", u, cid, <<>>, 404, "Canteen not found")
    ELSE IF Role(u) = "CANTEEN" /\ UserCanteen(u) # cid THEN
        Reject("toggle_online_orders", u, cid, <<>>, 403, "Not authorized to update this canteen")
    ELSE
        /\ canteens' = [canteens EXCEPT ![cid].isOnlineOrdersEnabled = ~@]
        /\ resp' = Answer("toggle_online_orders", u, cid, <<>>, 200, "")
        /\ UNCHANGED <<orders, payments, menuitems, now, inflight, completions>>

\* update_menu_item that also rewrites the line items of the stored orders
update_menu_itemRewritesOrders(u, mid, data) ==
    IF ~authorize(u, Staff) THEN
        Reject("update_menu_item", u, mid, data, 403, "User role is not authorized to access this route")
    ELSE IF mid \notin DOMAIN menuitems THEN
        Reject("update_menu_item", u, mid, data, 404, "Menu item not found")
    ELSE IF Role(u) = "CANTEEN" /\ UserCanteen(u) # menuitems[mid].canteenId THEN
        Reject("update_menu_item", u, mid, data, 403, "Not authorized to update this menu item")
    ELSE
        /\ menuitems' = [menuitems EXCEPT ![mid] =
              SetFields(@, data, {"_id", "canteenId", "createdAt"})]
        /\ orders' = [o \in DOMAIN orders |->
              [orders[o] EXCEPT !.items =
                  [i \in DOMAIN orders[o].items |->
                      IF orders[o].items[i].menuItem = mid
                      THEN SetFields(orders[o].items[i], data, {"menuItem", "quantity"})
                      ELSE orders[o].items[i]]]]
        /\ resp' = Answer("update_menu_item", u, mid, data, 200, "")
        /\ UNCHANGED <<payments, canteens, now, inflight, completions>>

update_menu_item(u, mid, data) ==
    IF ~authorize(u, Staff) THEN
        Reject("update_menu_item", u, mid, data, 403, "User role is not authorized to access this route")
    ELSE IF mid \notin DOMAIN menuitems THEN
        Reject("update_menu_item", u, mid, data, 404, "Menu item not found")
    ELSE IF Role(u) = "CANTEEN" /\ UserCanteen(u) # menuitems[mid].canteenId THEN
        Reject("update_menu_item", u, mid, data, 403, "Not authorized to update this menu item")
    ELSE
        /\ menuitems' = [menuitems EXCEPT ![mid] =
              SetFields(@, data, {"_id", "canteenId", "createdAt"})]
        /\ resp' = Answer("update_menu_item", u, mid, data, 200, "")
        /\ UNCHANGED <<orders, payments, canteens, now, inflight, completions>>

toggle_menu_availability(u, mid) ==
    IF ~authorize(u, Staff) THEN
        Reject("toggle_menu_availability", u, mid, <<>>, 403, "User role is not authorized to access this route")
    ELSE IF mid \notin DOMAIN menuitems THEN
        Reject("toggle_menu_availability", u, mid, <<>>, 404, "Menu item not found")
    ELSE IF Role(u) = "CANTEEN" /\ UserCanteen(u) # menuitems[mid].canteenId THEN
        Reject("toggle_menu_availability", u, mid, <<>>, 403, "Not authorized to update this menu item")
    ELSE
        /\ menuitems' = [menuitems EXCEPT ![mid].isAvailable = ~@]
        /\ resp' = Answer("toggle_menu_availability", u, mid, <<>>, 200, "")
        /\ UNCHANGED <<orders, payments, canteens, now, inflight, completions>>

delete_menu_item(u, mid) ==
    IF ~authorize(u, Staff) THEN
        Reject("delete_menu_item", u, mid, <<>>, 403, "User role is not authorized to access this route")
    ELSE IF mid \notin DOMAIN menuitems THEN
        Reject("delete_menu_item", u, mid, <<>>, 404, "Menu item not found")
    ELSE IF Role(u) = "CANTEEN" /\ UserCanteen(u) # menuitems[mid].canteenId THEN
        Reject("delete_menu_item", u, mid, <<>>, 403, "Not authorized to delete this menu item")
    ELSE
        /\ menuitems' = [m \in DOMAIN menuitems \ {mid} |-> menuitems[m]]
        /\ resp' = Answer("delete_menu_item", u, mid, <<>>, 200, "")
        /\ UNCHANGED <<orders, payments, canteens, now, inflight, completions>>

\* (canteenId, items) of the create_order requests of the ordering runs:
\* single and multiple lines, quantities at and beyond both bulk thresholds,
\* an empty list, and every way a request can fail a check
OrderingRequests ==
    { <<"c1", <<[menuItem |-> "m1", quantity |-> 2], [menuItem |-> "m2", quantity |-> 1]>> >>,
      <<"c1", <<[menuItem |-> "m1", quantity |-> 1]>> >>,
      <<"c1", <<[menuItem |-> "m2", quantity |-> 2]>> >>,
      <<"c1", <<>> >>,
      <<"c1", <<[menuItem |-> "m1", quantity |-> 0]>> >>,
      <<"c1", <<[menuItem |-> "m1", quantity |-> 0 - 1]>> >>,
      <<"c2", <<[menuItem |-> "m3", quantity |-> 50]>> >>,
      <<"c2", <<[menuItem |-> "m3", quantity |-> 51]>> >>,
      <<"c3", <<[menuItem |-> "m1", quantity |-> 1]>> >>,
      <<"c4", <<[menuItem |-> "m1", quantity |-> 1]>> >>,
      <<"c9", <<[menuItem |-> "m1", quantity |-> 1]>> >>,
      <<"c1", <<[menuItem |-> "m1", quantity |-> 1], [menuItem |-> "m4", quantity |-> 1]>> >>,
      <<"c1", <<[menuItem |-> "m9", quantity |-> 1]>> >>,
      <<"c1", <<[menuItem |-> "m1", quantity |-> 1], [menuItem |-> "m3", quantity |-> 1]>> >> }

\* the staff of the canteen and the staff of another one
CatalogCallers == {"k1", "k2"}

OrderingCreate == \E u \in Creators, r \in OrderingRequests : create_order(u, r[1], r[2])
UpdateCanteen == \E u \in CatalogCallers : update_canteen(u, "c1", [maxBulkSize |-> 1])
ToggleCanteenOpen == \E u \in CatalogCallers : toggle_canteen_open(u, "c1")
ToggleOnlineOrders == \E u \in CatalogCallers : toggle_online_orders(u, "c1")
UpdateMenuItem == \E u \in CatalogCallers : update_menu_item(u, "m1", [price |-> 60])
ToggleMenuAvailability == \E u \in CatalogCallers : toggle_menu_availability(u, "m2")

\* orders are placed while the staff edits the catalog
NextOrdering ==
    \/ OrderingCreate
    \/ UpdateCanteen
    \/ ToggleCanteenOpen
    \/ ToggleOnlineOrders
    \/ UpdateMenuItem
    \/ ToggleMenuAvailability

SpecOrdering == Init /\ [][NextOrdering]_vars

\* the body of an edit of a menu item: a new name, price and veg flag
MenuEdit == [name |-> "m1 special", price |-> 60, isVeg |-> FALSE]

EditMenuItem == \E u \in CatalogCallers : update_menu_item(u, "m1", MenuEdit)
DeleteMenuItem == \E u \in CatalogCallers : delete_menu_item(u, "m1")

\* orders are placed while the staff edits, hides and deletes menu items
NextMenu ==
    \/ OrderingCreate
    \/ EditMenuItem
    \/ ToggleMenuAvailability
    \/ DeleteMenuItem

SpecMenu == Init /\ [][NextMenu]_vars

\* the CANTEEN users assigned to the order's canteen
CanteenStaff(o) == {u \in Users : Role(u) = "CANTEEN" /\ UserCanteen(u) = o.canteenId}

HappyCreators == {"s1", "s2"}

\* a new order is requested when no order is on its way
HappyCreate ==
    /\ \/ resp.op \in {"none", "complete"}
       \/ resp.op = "create_order" /\ ~Succeeded(resp)
    /\ \E u \in HappyCreators, r \in OrderingRequests : create_order(u, r[1], r[2])

\* the owner initiates the payment of the order just created
HappyInitiate ==
    /\ resp.op = "create_order"
    /\ Succeeded(resp)
    /\ initiate_payment(orders[resp.id].userId, resp.id)

\* the owner confirms the payment just initiated
HappyConfirm ==
    /\ resp.op = "initiate_payment"
    /\ Succeeded(resp)
    /\ confirm_payment(payments[resp.arg[1]].userId, resp.arg[1])

HappyAccept ==
    /\ resp.op = "confirm_payment"
    /\ Succeeded(resp)
    /\ \E u \in CanteenStaff(orders[payments[resp.id].orderId]) :
          accept_order(u, payments[resp.id].orderId)

HappyPrepare ==
    /\ resp.op = "accept"
    /\ Succeeded(resp)
    /\ \E u \in CanteenStaff(orders[resp.id]) : prepare_order(u, resp.id)

HappyReady ==
    /\ resp.op = "prepare"
    /\ Succeeded(resp)
    /\ \E u \in CanteenStaff(orders[resp.id]) : ready_order(u, resp.id)

\* the staff redeems the code stored on the order
HappyComplete ==
    /\ resp.op = "ready"
    /\ Succeeded(resp)
    /\ \E u \in CanteenStaff(orders[resp.id]) :
          complete_order(u, resp.id, orders[resp.id].pickupCode)

\* each created order is taken through payment and fulfilment, one request
\* after the other and nothing in between
NextHappy ==
    \/ HappyCreate
    \/ HappyInitiate
    \/ HappyConfirm
    \/ HappyAccept
    \/ HappyPrepare
    \/ HappyReady
    \/ HappyComplete

SpecHappy == Init /\ [][NextHappy]_vars

----------------------------------------------------------------------------
(* Earnings of a canteen *)

\* the clock counts ticks; a day and a month are whole numbers of ticks
TicksPerDay == 2
DaysPerMonth == 2
MaxTime == 4

\* datetime.utcnow().replace(hour=0, minute=0, second=0, microsecond=0)
start_of_day(t) == t - (t % TicksPerDay)

\* datetime.utcnow().replace(hour=23, minute=59, second=59, microsecond=999999)
end_of_day(t) == start_of_day(t) + (TicksPerDay - 1)

\* datetime.utcnow().replace(day=1, hour=0, minute=0, second=0, microsecond=0)
start_of_month(t) == t - (t % (TicksPerDay * DaysPerMonth))

\* a match on the canteen alone
MatchAnyStatus(o, cid) == o.canteenId = cid

\* {'$match': {'canteenId': ObjectId(canteen_id), 'status': 'COMPLETED'}}
MatchCompleted(o, cid) == o.canteenId = cid /\ o.status = "COMPLETED"

RECURSIVE CompletedOrders(_, _)
\* the matching orders among the first i, the latest created first
CompletedOrders(cid, i) ==
    IF i = 0 THEN <<>>
    ELSE IF MatchCompleted(orders[i], cid) THEN <<i>> \o CompletedOrders(cid, i - 1)
    ELSE CompletedOrders(cid, i - 1)

RECURSIVE DailyEarnings(_, _)
\* $sum of totalAmount over the matches updated between start and end of day
DailyEarnings(cid, i) ==
    IF i > Len(orders) THEN 0
    ELSE (IF /\ MatchCompleted(orders[i], cid)
             /\ orders[i].updatedAt >= start_of_day(now)
             /\ orders[i].updatedAt <= end_of_day(now)
          THEN orders[i].totalAmount ELSE 0) + DailyEarnings(cid, i + 1)

RECURSIVE MonthlyEarnings(_, _)
\* $sum of totalAmount over the matches updated since the start of the month
MonthlyEarnings(cid, i) ==
    IF i > Len(orders) THEN 0
    ELSE (IF /\ MatchCompleted(orders[i], cid)
             /\ orders[i].updatedAt >= start_of_month(now)
          THEN orders[i].totalAmount ELSE 0) + MonthlyEarnings(cid, i + 1)

\* the answer carries the list, the daily and the monthly earnings
get_canteen_completed_orders(u, cid) ==
    IF ~authorize(u, Staff) THEN
        Reject("get_canteen_completed_orders", u, cid, <<>>, 403, "User role is not authorized to access this route")
    ELSE IF Role(u) = "CANTEEN" /\ UserCanteen(u) # cid THEN
        Reject("get_canteen_completed_orders", u, cid, <<>>, 403, "Not authorized to view orders for this canteen")
    ELSE
        /\ resp' = Answer("get_canteen_completed_orders", u, cid,
                          <<CompletedOrders(cid, Len(orders)),
                            DailyEarnings(cid, 1), MonthlyEarnings(cid, 1)>>, 200, "")
        /\ UNCHANGED <<orders, payments, canteens, menuitems, now, inflight, completions>>

\* datetime.utcnow() grows
Tick ==
    /\ now < MaxTime
    /\ now' = now + 1
    /\ UNCHANGED <<orders, payments, canteens, menuitems, resp, inflight, completions>>

EarningsCanteens == {"c1", "c2"}
EarningsCallers == {"s1", "k1", "k2"}
ServedStatuses == {"READY", "COMPLETED"}

\* the i-th order of the earnings runs: i portions of one item of canteen
\* cid, paid and served up to the given status at time t
ServedOrder(i, cid, status, t) ==
    LET items == <<[menuItem |-> IF cid = "c1" THEN "m1" ELSE "m3", quantity |-> i]>> IN
    [userId |-> "s1",
     canteenId |-> cid,
     items |-> OrderItems(items),
     totalAmount |-> SumAmount(items, 1),
     isBulkOrder |-> SumQuantity(items, 1) > BulkThreshold(canteens[cid]),
     status |-> status,
     pickupCode |-> Digits(MinPickupCode),
     pickupCodeUsed |-> status = "COMPLETED",
     updatedAt |-> t]

RECURSIVE Latest(_, _)
\* the largest of the first i times
Latest(ts, i) ==
    IF i = 0 THEN 0
    ELSE IF ts[i] > Latest(ts, i - 1) THEN ts[i] ELSE Latest(ts, i - 1)

\* a store that holds paid orders of two canteens, each READY or COMPLETED
\* at some time up to now
InitEarnings ==
    /\ canteens =
          [c \in {"c1", "c2", "c3", "c4"} |->
              [isOpen |-> c # "c3",
               isOnlineOrdersEnabled |-> c # "c4",
               maxBulkSize |-> IF c = "c1" THEN 2 ELSE 0 - 1]]
    /\ menuitems =
          [m \in {"m1", "m2", "m3", "m4"} |->
              [canteenId |-> IF m = "m3" THEN "c2" ELSE "c1",
               name |-> m,
               price |-> CASE m = "m1" -> 50 [] m = "m2" -> 30 [] m = "m3" -> 20 [] OTHER -> 40,
               isAvailable |-> m # "m4",
               isVeg |-> m # "m2"]]
    /\ \E cs \in [1..(MaxOrders + 1) -> EarningsCanteens],
          ss \in [1..(MaxOrders + 1) -> ServedStatuses],
          ts \in [1..(MaxOrders + 1) -> 0..MaxTime] :
          /\ orders = [i \in 1..(MaxOrders + 1) |-> ServedOrder(i, cs[i], ss[i], ts[i])]
          /\ payments = [i \in 1..(MaxOrders + 1) |->
                [orderId |-> i,
                 userId |-> "s1",
                 amount |-> orders[i].totalAmount,
                 status |-> "SUCCESS",
                 transactionId |-> MockTransactionId,
                 updatedAt |-> 0]]
          /\ completions = [i \in 1..(MaxOrders + 1) |-> IF ss[i] = "COMPLETED" THEN 1 ELSE 0]
          /\ now = Latest(ts, MaxOrders + 1)
    /\ resp = NoAnswer
    /\ inflight = [i \in 1..MaxInflight |-> Idle]

GetCanteenEarnings ==
    \E u \in EarningsCallers, cid \in EarningsCanteens : get_canteen_completed_orders(u, cid)

\* the admin hands out a READY order against its code
EarningsComplete ==
    \E oid \in DOMAIN orders : complete_order("a1", oid, orders[oid].pickupCode)

\* orders are completed and earnings are read while time passes
NextEarnings ==
    \/ Tick
    \/ GetCanteenEarnings
    \/ EarningsComplete

SpecEarnings == InitEarnings /\ [][NextEarnings]_vars

----------------------------------------------------------------------------
(* Viewing an order *)

\* get_order without the check of the CANTEEN caller's canteen
get_orderNoCanteenCheck(u, oid) ==
    IF oid \notin DOMAIN orders THEN
        Reject("get_order", u, oid, <<>>, 404, "Order not found")
    ELSE IF Role(u) = "STUDENT" /\ orders[oid].userId # u THEN
        Reject("get_order", u, oid, <<>>, 403, "Not authorized to view this order")
    ELSE
        /\ resp' = Answer("get_order", u, oid, <<orders[oid]>>, 200, "")
        /\ UNCHANGED <<orders, payments, canteens, menuitems, now, inflight, completions>>

\* the answer carries the order; the looked-up canteen and user documents
\* only decorate it, the ids compared are those stored on the order
get_order(u, oid) ==
    IF oid \notin DOMAIN orders THEN
        Reject("get_order", u, oid, <<>>, 404, "Order not found")
    ELSE IF Role(u) = "STUDENT" /\ orders[oid].userId # u THEN
        Reject("get_order", u, oid, <<>>, 403, "Not authorized to view this order")
    ELSE IF Role(u) = "CANTEEN" /\ orders[oid].canteenId # UserCanteen(u) THEN
        Reject("get_order", u, oid, <<>>, 403, "Not authorized to view this order")
    ELSE
        /\ resp' = Answer("get_order", u, oid, <<orders[oid]>>, 200, "")
        /\ UNCHANGED <<orders, payments, canteens, menuitems, now, inflight, completions>>

ViewCreate == \E u \in HappyCreators, r \in OrderingRequests : create_order(u, r[1], r[2])

\* every principal asks for every order, and for one that does not exist
GetOrder == \E u \in Users, oid \in 1..(MaxOrders + 1) : get_order(u, oid)

NextView ==
    \/ ViewCreate
    \/ GetOrder

SpecView == Init /\ [][NextView]_vars

----------------------------------------------------------------------------
(* Order transitions whose read and write are separate steps: find_one and  *)
(* the guards first, update_one later, any other request in between.        *)

TransitionOps == {"accept", "prepare", "ready", "complete", "cancel"}

\* the status a staff route requires, and its message
RequiredStatus(op) ==
    CASE op = "accept" -> <<"PAID", "Only paid orders can be accepted">>
      [] op = "prepare" -> <<"ACCEPTED", "Only accepted orders can be marked as preparing">>
      [] op = "ready" -> <<"PREPARING", "Only preparing orders can be marked as ready">>

\* the guards of a transition route on what find_one returned, in the
\* order of the code: the answer of the first that fails, NoFault if none
TransitionGuard(op, u, oid, code) ==
    IF op # "cancel" /\ ~authorize(u, Staff) THEN
        <<403, "User role is not authorized to access this route">>
    ELSE IF oid \notin DOMAIN orders THEN <<404, "Order not found">>
    ELSE IF op = "cancel" THEN
        IF Role(u) = "STUDENT" /\ orders[oid].userId # u
        THEN <<403, "Not authorized to cancel this order">>
        ELSE IF orders[oid].status \in NotCancellable
        THEN <<400, "Cannot cancel order at this stage">>
        ELSE NoFault
    ELSE IF NotCanteenOwner(u, orders[oid]) THEN <<403, "Not authorized to update this order">>
    ELSE IF op = "complete" THEN
        IF CompleteGuard(orders[oid], code) # ""
        THEN <<400, CompleteGuard(orders[oid], code)>>
        ELSE NoFault
    ELSE IF orders[oid].status # RequiredStatus(op)[1] THEN <<400, RequiredStatus(op)[2]>>
    ELSE NoFault

\* the request body echoed in the answer: the pickup code of a complete
TransitionArg(op, code) == IF op = "complete" THEN code ELSE <<>>

\* the handler up to its last guard; code is the code supplied to complete,
\* or the one generate_pickup_code would return to ready; seen is the status
\* of the order that find_one returned
transition_begin(i, op, u, oid, code) ==
    /\ FreeSlot(i)
    /\ IF TransitionGuard(op, u, oid, code) # NoFault THEN
           Reject(op, u, oid, TransitionArg(op, code),
                  TransitionGuard(op, u, oid, code)[1], TransitionGuard(op, u, oid, code)[2])
       ELSE
           /\ inflight' = [inflight EXCEPT ![i] =
                 [op |-> op, caller |-> u, oid |-> oid,
                  seen |-> orders[oid].status,
                  code |-> IF op = "ready" /\ orders[oid].pickupCode # NoCode
                           THEN orders[oid].pickupCode ELSE code]]
           /\ UNCHANGED <<orders, payments, canteens, menuitems, now, resp, completions>>

\* a complete that sets the status and leaves pickupCodeUsed for later
TransitionSetStatusFirst(op, o, code) ==
    CASE op = "accept" -> [o EXCEPT !.status = "ACCEPTED", !.updatedAt = now]
      [] op = "prepare" -> [o EXCEPT !.status = "PREPARING", !.updatedAt = now]
      [] op = "ready" ->
            [o EXCEPT !.status = "READY", !.pickupCode = code, !.updatedAt = now]
      [] op = "complete" -> [o EXCEPT !.status = "COMPLETED", !.updatedAt = now]
      [] op = "cancel" -> [o EXCEPT !.status = "CANCELLED", !.updatedAt = now]

\* the $set of each route, applied by update_one({'_id': ...}, ...) to the
\* order as it is at the time of the write
TransitionSet(op, o, code) ==
    CASE op = "accept" -> [o EXCEPT !.status = "ACCEPTED", !.updatedAt = now]
      [] op = "prepare" -> [o EXCEPT !.status = "PREPARING", !.updatedAt = now]
      [] op = "ready" ->
            [o EXCEPT !.status = "READY", !.pickupCode = code, !.updatedAt = now]
      [] op = "complete" ->
            [o EXCEPT !.status = "COMPLETED", !.pickupCodeUsed = TRUE, !.updatedAt = now]
      [] op = "cancel" -> [o EXCEPT !.status = "CANCELLED", !.updatedAt = now]

\* a handler that checks its guards again before it writes
transition_writeRechecks(i) ==
    /\ inflight[i].op \in TransitionOps
    /\ IF TransitionGuard(inflight[i].op, inflight[i].caller, inflight[i].oid,
                          inflight[i].code) # NoFault
       THEN /\ resp' = Answer(inflight[i].op, inflight[i].caller, inflight[i].oid,
                              TransitionArg(inflight[i].op, inflight[i].code), 400, "")
            /\ UNCHANGED <<orders, completions>>
       ELSE /\ SetOrder(inflight[i].oid,
                  TransitionSet(inflight[i].op, orders[inflight[i].oid], inflight[i].code))
            /\ completions' = [completions EXCEPT ![inflight[i].oid] =
                  IF inflight[i].op = "complete" THEN @ + 1 ELSE @]
            /\ resp' = Answer(inflight[i].op, inflight[i].caller, inflight[i].oid,
                              TransitionArg(inflight[i].op, inflight[i].code), 200, "")
    /\ inflight' = [inflight EXCEPT ![i] = Idle]
    /\ UNCHANGED <<payments, canteens, menuitems, now>>

\* the handler from update_one on: the write and the success answer
transition_write(i) ==
    /\ inflight[i].op \in TransitionOps
    /\ SetOrder(inflight[i].oid,
          TransitionSet(inflight[i].op, orders[inflight[i].oid], inflight[i].code))
    /\ completions' = [completions EXCEPT ![inflight[i].oid] =
          IF inflight[i].op = "complete" THEN @ + 1 ELSE @]
    /\ resp' = Answer(inflight[i].op, inflight[i].caller, inflight[i].oid,
                      TransitionArg(inflight[i].op, inflight[i].code), 200, "")
    /\ inflight' = [inflight EXCEPT ![i] = Idle]
    /\ UNCHANGED <<payments, canteens, menuitems, now>>

\* who sends each request: the owner cancels, the staff of the canteen
\* serves
TransitionCallers(op) == IF op = "cancel" THEN {"s1"} ELSE {"k1"}

\* two requests are handled at a time
TransitionWorkers == {1, 2}

\* the codes a transition request can carry or draw
TransitionCodes(op) ==
    IF op \in {"ready", "complete"} THEN generate_pickup_code ELSE {NoCode}

TransitionBegin ==
    \E i \in TransitionWorkers, op \in TransitionOps, oid \in OrderIds :
        \E u \in TransitionCallers(op), code \in TransitionCodes(op) :
            transition_begin(i, op, u, oid, code)
TransitionWrite == \E i \in TransitionWorkers : transition_write(i)
\* the order of the interleaved runs: 50 x 2 + 30 x 1 at canteen c1
OwnerCreate ==
    create_order("s1", "c1", <<[menuItem |-> "m1", quantity |-> 2],
                               [menuItem |-> "m2", quantity |-> 1]>>)
OwnerInitiate == \E oid \in OrderIds : initiate_payment("s1", oid)
OwnerConfirm == \E pid \in PaymentIds : confirm_payment("s1", pid)

\* the order is paid in single steps; every transition takes two steps,
\* with any other request between them
NextTransitionRace ==
    \/ OwnerCreate
    \/ OwnerInitiate
    \/ OwnerConfirm
    \/ TransitionBegin
    \/ TransitionWrite

SpecTransitionRace == Init /\ [][NextTransitionRace]_vars

CompleteBegin ==
    \E i \in TransitionWorkers, oid \in OrderIds, code \in generate_pickup_code :
        transition_begin(i, "complete", "k1", oid, code)
CompleteWrite ==
    \E i \in TransitionWorkers : inflight[i].op = "complete" /\ transition_write(i)
StaffAccept == \E oid \in OrderIds : accept_order("k1", oid)
StaffPrepare == \E oid \in OrderIds : prepare_order("k1", oid)
StaffReady == \E oid \in OrderIds : ready_order("k1", oid)

\* the order is paid and served up to READY in single steps; complete takes
\* two steps, with any other request between them
NextCompleteRace ==
    \/ OwnerCreate
    \/ OwnerInitiate
    \/ OwnerConfirm
    \/ StaffAccept
    \/ StaffPrepare
    \/ StaffReady
    \/ CompleteBegin
    \/ CompleteWrite

SpecCompleteRace == Init /\ [][NextCompleteRace]_vars

\* every transition in two steps, with the payment provider's webhook
\* arriving at any time
NextHandlersRace ==
    \/ NextTransitionRace
    \/ PaytmWebhook

SpecHandlersRace == Init /\ [][NextHandlersRace]_vars

----------------------------------------------------------------------------
(* The webhook on a store of several orders *)

\* what the provider can send as status: success, failure, a status in
\* between, and no status at all
AnyProviderStatuses == {"TXN_SUCCESS", "TXN_FAILURE", "PENDING", "null"}

\* an order waiting for its payment, one ready for pickup, one handed out
StoredStatuses == {"CREATED", "READY", "COMPLETED"}

\* the i-th order of the store, at canteen c1, in the given status
StoredOrder(i, status) ==
    IF status = "CREATED"
    THEN [ServedOrder(i, "c1", status, 0) EXCEPT !.pickupCode = NoCode]
    ELSE ServedOrder(i, "c1", status, 0)

\* the payment of the i-th order: PENDING while the order is CREATED,
\* confirmed otherwise
StoredPayment(i, status) ==
    IF status = "CREATED"
    THEN NewPayment("s1", i, orders[i].totalAmount)
    ELSE [NewPayment("s1", i, orders[i].totalAmount) EXCEPT
             !.status = "SUCCESS", !.transactionId = MockTransactionId]

InitWebhook ==
    /\ canteens =
          [c \in {"c1", "c2", "c3", "c4"} |->
              [isOpen |-> c # "c3",
               isOnlineOrdersEnabled |-> c # "c4",
               maxBulkSize |-> IF c = "c1" THEN 2 ELSE 0 - 1]]
    /\ menuitems =
          [m \in {"m1", "m2", "m3", "m4"} |->
              [canteenId |-> IF m = "m3" THEN "c2" ELSE "c1",
               name |-> m,
               price |-> CASE m = "m1" -> 50 [] m = "m2" -> 30 [] m = "m3" -> 20 [] OTHER -> 40,
               isAvailable |-> m # "m4",
               isVeg |-> m # "m2"]]
    /\ now = 0
    /\ \E ss \in [1..(MaxOrders + 1) -> StoredStatuses] :
          /\ orders = [i \in 1..(MaxOrders + 1) |-> StoredOrder(i, ss[i])]
          /\ payments = [i \in 1..(MaxOrders + 1) |-> StoredPayment(i, ss[i])]
          /\ completions = [i \in 1..(MaxOrders + 1) |-> IF ss[i] = "COMPLETED" THEN 1 ELSE 0]
    /\ resp = NoAnswer
    /\ inflight = [i \in 1..MaxInflight |-> Idle]

\* the provider calls for every stored order and for one it does not know
ProviderWebhook ==
    \E oid \in 1..(MaxOrders + 2), st \in AnyProviderStatuses, txn \in ProviderTxnIds :
        paytm_webhook(oid, st, txn)

NextWebhook ==
    \/ ProviderWebhook

SpecWebhook == InitWebhook /\ [][NextWebhook]_vars

----------------------------------------------------------------------------
(* Properties *)

\* the edges of the lifecycle table
LifecycleEdges ==
    { <<"CREATED", "PAID">>, <<"PAID", "ACCEPTED">>, <<"ACCEPTED", "PREPARING">>,
      <<"PREPARING", "READY">>, <<"READY", "COMPLETED">>,
      <<"CREATED", "CANCELLED">>, <<"PAID", "CANCELLED">>, <<"ACCEPTED", "CANCELLED">>,
      <<"CREATED", "FAILED">> }

\* the caller is ADMIN or the CANTEEN user of the order's canteen
StaffOf(u, o) ==
    \/ Role(u) = "ADMIN"
    \/ Role(u) = "CANTEEN" /\ UserCanteen(u) = o.canteenId

\* C1: every change of an order's status follows one edge of the lifecycle
\* table; no other status change ever occurs.
C1_StatusFollowsLifecycle ==
    [][\A o \in DOMAIN orders :
          orders'[o].status # orders[o].status
              => <<orders[o].status, orders'[o].status>> \in LifecycleEdges]_vars

\* C2: CANCELLED and FAILED are absorbing: once an order has one of these
\* statuses, no later operation changes its status.
C2_TerminalAbsorbing ==
    [][\A o \in DOMAIN orders :
          orders[o].status \in {"CANCELLED", "FAILED"}
              => orders'[o].status = orders[o].status]_vars

\* C3: once an order's pickupCode is non-null, its value is the same in
\* every later state.
C3_PickupCodeGeneratedOnce ==
    [][\A o \in DOMAIN orders :
          orders[o].pickupCode # NoCode
              => orders'[o].pickupCode = orders[o].pickupCode]_vars

\* C4: for a caller who is ADMIN or the CANTEEN user of the order's canteen,
\* complete(order, code) succeeds iff the order is READY, its code is unused
\* and the supplied code equals the stored one; on success the order is
\* COMPLETED with pickupCodeUsed = true, on failure it is unchanged.
C4_CompleteIffRedeemable ==
    [][(/\ resp'.op = "complete"
        /\ resp'.id \in DOMAIN orders
        /\ StaffOf(resp'.caller, orders[resp'.id]))
       => LET o == orders[resp'.id] IN
          /\ Succeeded(resp') <=>
                (/\ o.status = "READY"
                 /\ ~o.pickupCodeUsed
                 /\ resp'.arg = o.pickupCode)
          /\ Succeeded(resp') =>
                orders'[resp'.id] = [o EXCEPT !.status = "COMPLETED",
                                              !.pickupCodeUsed = TRUE,
                                              !.updatedAt = now]
          /\ ~Succeeded(resp') => orders'[resp'.id] = o]_vars

\* C4 witness: the staff of the order's canteen has just completed an order
\* with its stored code
C4_Witness ==
    /\ resp.op = "complete"
    /\ resp.caller = "k1"
    /\ Succeeded(resp)
    /\ orders[resp.id].status = "COMPLETED"
    /\ orders[resp.id].pickupCodeUsed
    /\ orders[resp.id].pickupCode = resp.arg

\* C5: complete succeeds at most once per order over any sequence of
\* operations, and the used-flag of a completed order is never reset.
C5_CompleteAtMostOnce ==
    \A o \in DOMAIN orders :
        /\ completions[o] <= 1
        /\ completions[o] = 1 => orders[o].pickupCodeUsed

\* C5 witness: an order completed once is READY again (after paytm_webhook,
\* accept, prepare, ready) and a complete with its stored code by the staff
\* of its canteen has just been rejected
C5_Witness ==
    /\ resp.op = "complete"
    /\ resp.id \in DOMAIN orders
    /\ ~Succeeded(resp)
    /\ StaffOf(resp.caller, orders[resp.id])
    /\ completions[resp.id] = 1
    /\ orders[resp.id].status = "READY"
    /\ orders[resp.id].pickupCode = resp.arg

\* C6: a cancel call by an authorized caller succeeds only when the order's
\* status is in {CREATED, PAID, ACCEPTED}; for PREPARING, READY or COMPLETED
\* it is rejected and the order is unchanged.
C6_CancelOnlyBeforePreparing ==
    [][(resp'.op = "cancel" /\ resp'.id \in DOMAIN orders)
       => /\ Succeeded(resp') =>
                orders[resp'.id].status \in {"CREATED", "PAID", "ACCEPTED"}
          /\ orders[resp'.id].status \in {"PREPARING", "READY", "COMPLETED"} =>
                ~Succeeded(resp') /\ orders'[resp'.id] = orders[resp'.id]]_vars

\* C7: in every reachable state each order has at most one payment whose
\* status is PENDING or SUCCESS, also when handlers interleave.
C7_OneActivePaymentPerOrder ==
    \A o \in DOMAIN orders : Cardinality(ActivePayments(o)) <= 1

ConflictMessage == "Payment already initiated for this order"
NotPayableMessage == "Order is not in a payable state"

\* C8, as stated: an initiate_payment call by the order's owner, made while
\* a PENDING or SUCCESS payment exists for the order, is rejected with the
\* Conflict outcome and creates no payment record.
C8_DuplicateIsConflict ==
    [][(/\ resp'.op = "initiate_payment"
        /\ resp'.id \in DOMAIN orders
        /\ orders[resp'.id].userId = resp'.caller
        /\ ActivePayments(resp'.id) # {})
       => /\ ~Succeeded(resp')
          /\ resp'.msg = ConflictMessage
          /\ payments' = payments]_vars

\* C8, amended: such a call is rejected and creates no payment record; the
\* rejection is the Conflict outcome when the order's status is CREATED and
\* 'order is not in a payable state' for any other status.
C8_DuplicateIsRejected ==
    [][(/\ resp'.op = "initiate_payment"
        /\ resp'.id \in DOMAIN orders
        /\ orders[resp'.id].userId = resp'.caller
        /\ ActivePayments(resp'.id) # {})
       => /\ ~Succeeded(resp')
          /\ resp'.msg = IF orders[resp'.id].status = "CREATED"
                         THEN ConflictMessage ELSE NotPayableMessage
          /\ payments' = payments]_vars

\* C8 witness: the owner's second initiate_payment on a CREATED order with
\* a PENDING payment has just been answered with the Conflict outcome
C8_Witness ==
    /\ resp.op = "initiate_payment"
    /\ resp.msg = ConflictMessage
    /\ resp.id \in DOMAIN orders
    /\ orders[resp.id].userId = resp.caller
    /\ orders[resp.id].status = "CREATED"
    /\ \E p \in DOMAIN payments :
          payments[p].orderId = resp.id /\ payments[p].status = "PENDING"
    /\ Len(payments) = 1

\* C9: initiate_payment succeeds only if the caller owns the order, the
\* order is CREATED and no PENDING/SUCCESS payment exists for it; on success
\* exactly one payment is added, PENDING, with null transactionId and the
\* order's stored totalAmount, and the order is unchanged.
C9_InitiateCreatesPending ==
    [][(resp'.op = "initiate_payment" /\ Succeeded(resp'))
       => /\ resp'.id \in DOMAIN orders
          /\ orders[resp'.id].userId = resp'.caller
          /\ orders[resp'.id].status = "CREATED"
          /\ ActivePayments(resp'.id) = {}
          /\ Len(payments') = Len(payments) + 1
          /\ SubSeq(payments', 1, Len(payments)) = payments
          /\ payments'[Len(payments')].orderId = resp'.id
          /\ payments'[Len(payments')].userId = resp'.caller
          /\ payments'[Len(payments')].status = "PENDING"
          /\ payments'[Len(payments')].transactionId = NoTxn
          /\ payments'[Len(payments')].amount = orders[resp'.id].totalAmount
          /\ orders' = orders]_vars

\* C9 witness: the owner has just initiated the payment of a 130 order
C9_Witness ==
    /\ resp.op = "initiate_payment"
    /\ Succeeded(resp)
    /\ Len(payments) = 1
    /\ payments[1].status = "PENDING"
    /\ payments[1].amount = 130
    /\ orders[payments[1].orderId].totalAmount = 130
    /\ orders[payments[1].orderId].status = "CREATED"

\* C10: whenever confirm_payment succeeds, the order's status was CREATED
\* immediately before and is PAID with a non-null pickup code immediately
\* after; confirm never moves an order that is in any other status.
C10_ConfirmOnlyFromCreated ==
    [][(resp'.op = "confirm_payment" /\ Succeeded(resp'))
       => LET oid == payments[resp'.id].orderId IN
          /\ orders[oid].status = "CREATED"
          /\ orders'[oid].status = "PAID"
          /\ orders'[oid].pickupCode # NoCode]_vars

\* C11: a payment's status only moves from PENDING to SUCCESS or from
\* PENDING to FAILED; once SUCCESS or FAILED it is never changed again.
C11_PaymentSettlesOnce ==
    [][\A p \in DOMAIN payments :
          payments'[p].status # payments[p].status
              => /\ payments[p].status = "PENDING"
                 /\ payments'[p].status \in {"SUCCESS", "FAILED"}]_vars

\* C12: paytm_webhook is idempotent under redelivery: delivering the same
\* webhook a second time right after the first leaves the order's status,
\* pickupCode and pickupCodeUsed and the payment's status as they were.
C12_WebhookRedeliveryIdempotent ==
    [][(/\ resp.op = "paytm_webhook"
        /\ Succeeded(resp)
        /\ resp'.op = "paytm_webhook"
        /\ resp'.id = resp.id
        /\ resp'.arg = resp.arg)
       => /\ orders'[resp.id].status = orders[resp.id].status
          /\ orders'[resp.id].pickupCode = orders[resp.id].pickupCode
          /\ orders'[resp.id].pickupCodeUsed = orders[resp.id].pickupCodeUsed
          /\ \A p \in DOMAIN payments :
                payments'[p].status = payments[p].status]_vars

\* C13: a paytm_webhook call, with any provider status, for an order that
\* has no payment record returns NotFound and changes no order and no
\* payment.
C13_WebhookWithoutPaymentNotFound ==
    [][(/\ resp'.op = "paytm_webhook"
        /\ \A p \in DOMAIN payments : payments[p].orderId # resp'.id)
       => /\ resp'.code = 404
          /\ orders' = orders
          /\ payments' = payments]_vars

\* C13 witness: a TXN_SUCCESS webhook for an existing order without payment
\* has just been answered NotFound
C13_Witness ==
    /\ resp.op = "paytm_webhook"
    /\ resp.code = 404
    /\ resp.arg[1] = "TXN_SUCCESS"
    /\ resp.id \in DOMAIN orders
    /\ orders[resp.id].status = "CREATED"
    /\ payments = <<>>

\* C14: a call that is rejected by a guard leaves the sets of orders and
\* payments and every field of every order and payment unchanged.
C14_RejectionWritesNothing ==
    [][~Succeeded(resp') => orders' = orders /\ payments' = payments]_vars

\* C14 witness: a complete with a wrong code by the staff of the canteen has
\* just been rejected; the order is still READY and unused
C14_Witness ==
    /\ resp.op = "complete"
    /\ resp.code = 400
    /\ resp.msg = "Invalid pickup code"
    /\ orders[resp.id].status = "READY"
    /\ ~orders[resp.id].pickupCodeUsed
    /\ Len(payments) = 1

RECURSIVE LineTotal(_, _)
\* the sum of price x quantity over the stored line items from the i-th on
LineTotal(lines, i) ==
    IF i > Len(lines) THEN 0
    ELSE lines[i].price * lines[i].quantity + LineTotal(lines, i + 1)

RECURSIVE RequestedQuantity(_, _)
\* the sum of the requested quantities from the i-th line on
RequestedQuantity(items, i) ==
    IF i > Len(items) THEN 0
    ELSE items[i].quantity + RequestedQuantity(items, i + 1)

\* the request passes every check of create_order
Orderable(cid, items) ==
    /\ cid \in DOMAIN canteens
    /\ canteens[cid].isOpen
    /\ canteens[cid].isOnlineOrdersEnabled
    /\ \A i \in 1..Len(items) :
          /\ items[i].menuItem \in DOMAIN menuitems
          /\ menuitems[items[i].menuItem].isAvailable
          /\ menuitems[items[i].menuItem].canteenId = cid

\* C15: for every order that create_order persists, totalAmount equals the
\* sum over its stored line items of snapshot price x snapshot quantity,
\* each snapshot price being the menu item's price at creation time.
C15_TotalIsSumOfSnapshots ==
    [][/\ \A o \in DOMAIN orders' :
             orders'[o].totalAmount = LineTotal(orders'[o].items, 1)
       /\ (resp'.op = "create_order" /\ Succeeded(resp'))
          => LET o == orders'[resp'.id]
                 items == resp'.arg[2] IN
             /\ Len(o.items) = Len(items)
             /\ \A i \in 1..Len(items) :
                   /\ o.items[i].price = menuitems[items[i].menuItem].price
                   /\ o.items[i].quantity = items[i].quantity]_vars

\* C15 witness: an order of two lines placed after a price change:
\* 60 x 2 + 30 x 1 = 150
C15_Witness ==
    /\ resp.op = "create_order"
    /\ Succeeded(resp)
    /\ Len(orders[resp.id].items) = 2
    /\ orders[resp.id].items[1].price = 60
    /\ orders[resp.id].items[1].quantity = 2
    /\ orders[resp.id].totalAmount = 150

\* C16: for every order that create_order persists, isBulkOrder is true
\* exactly when the sum of the requested quantities is strictly greater than
\* the canteen's maxBulkSize at creation time (50 when it has none).
C16_BulkIffOverThreshold ==
    [][(resp'.op = "create_order" /\ Succeeded(resp'))
       => LET o == orders'[resp'.id]
              c == canteens[resp'.arg[1]]
              limit == IF c.maxBulkSize < 0 THEN 50 ELSE c.maxBulkSize IN
          o.isBulkOrder <=> RequestedQuantity(resp'.arg[2], 1) > limit]_vars

\* C16 witness: 50 items at a canteen without maxBulkSize are not a bulk
\* order
C16_Witness ==
    /\ resp.op = "create_order"
    /\ Succeeded(resp)
    /\ orders[resp.id].canteenId = "c2"
    /\ canteens["c2"].maxBulkSize < 0
    /\ orders[resp.id].items[1].quantity = 50
    /\ ~orders[resp.id].isBulkOrder

\* C17: create_order persists an order iff the canteen exists, is open, has
\* online orders enabled and every requested item exists, is available and
\* belongs to that canteen; otherwise it persists nothing.  A persisted
\* order has status CREATED, pickupCode null and pickupCodeUsed false.
C17_CreateIffOrderable ==
    [][resp'.op = "create_order"
       => /\ Succeeded(resp') <=> Orderable(resp'.arg[1], resp'.arg[2])
          /\ ~Succeeded(resp') => orders' = orders
          /\ Succeeded(resp') =>
                /\ Len(orders') = Len(orders) + 1
                /\ SubSeq(orders', 1, Len(orders)) = orders
                /\ orders'[Len(orders')].status = "CREATED"
                /\ orders'[Len(orders')].pickupCode = NoCode
                /\ orders'[Len(orders')].pickupCodeUsed = FALSE
                /\ orders'[Len(orders')].userId = resp'.caller
                /\ orders'[Len(orders')].canteenId = resp'.arg[1]]_vars

\* C17 witness: a request whose second item is unavailable has just been
\* rejected and nothing is stored
C17_Witness ==
    /\ resp.op = "create_order"
    /\ resp.code = 400
    /\ resp.msg = "is currently unavailable"
    /\ Len(resp.arg[2]) = 2
    /\ canteens[resp.arg[1]].isOpen
    /\ canteens[resp.arg[1]].isOnlineOrdersEnabled
    /\ menuitems[resp.arg[2][1].menuItem].isAvailable
    /\ orders = <<>>

\* the caller may not act on the order: a STUDENT who is not its owner, or
\* a CANTEEN user of another canteen
Stranger(u, o) ==
    \/ Role(u) = "STUDENT" /\ o.userId # u
    \/ Role(u) = "CANTEEN" /\ UserCanteen(u) # o.canteenId

\* C18: accept, prepare, ready, complete and cancel on an existing order by
\* a STUDENT who is not its owner, or by a CANTEEN user of another canteen,
\* are rejected as Forbidden and leave the order unchanged.
C18_StrangersAreForbidden ==
    [][(/\ resp'.op \in {"accept", "prepare", "ready", "complete", "cancel"}
        /\ resp'.id \in DOMAIN orders
        /\ Stranger(resp'.caller, orders[resp'.id]))
       => /\ resp'.code = 403
          /\ orders' = orders]_vars

\* C19: accept, prepare, ready and complete succeed only for the CANTEEN
\* user of the order's canteen or an ADMIN; no step of a STUDENT, the owner
\* included, moves an order to ACCEPTED, PREPARING, READY or COMPLETED.
C19_ServingIsStaffOnly ==
    [][/\ (resp'.op \in {"accept", "prepare", "ready", "complete"} /\ Succeeded(resp'))
          => StaffOf(resp'.caller, orders[resp'.id])
       /\ \A o \in DOMAIN orders :
             (/\ orders'[o].status # orders[o].status
              /\ orders'[o].status \in {"ACCEPTED", "PREPARING", "READY", "COMPLETED"})
             => /\ Role(resp'.caller) \in Staff
                /\ StaffOf(resp'.caller, orders[o])]_vars

\* C19 witness: the owner of a PAID order has just been refused to accept it
C19_Witness ==
    /\ resp.op = "accept"
    /\ resp.code = 403
    /\ Role(resp.caller) = "STUDENT"
    /\ resp.id \in DOMAIN orders
    /\ orders[resp.id].userId = resp.caller
    /\ orders[resp.id].status = "PAID"

\* C20: no step removes an order or a payment, and no step changes an
\* existing order's userId, canteenId, items, totalAmount or isBulkOrder, or
\* an existing payment's orderId, userId or amount.
C20_AppendOnly ==
    [][/\ Len(orders') >= Len(orders)
       /\ Len(payments') >= Len(payments)
       /\ \A o \in DOMAIN orders :
             /\ orders'[o].userId = orders[o].userId
             /\ orders'[o].canteenId = orders[o].canteenId
             /\ orders'[o].items = orders[o].items
             /\ orders'[o].totalAmount = orders[o].totalAmount
             /\ orders'[o].isBulkOrder = orders[o].isBulkOrder
       /\ \A p \in DOMAIN payments :
             /\ payments'[p].orderId = payments[p].orderId
             /\ payments'[p].userId = payments[p].userId
             /\ payments'[p].amount = payments[p].amount]_vars

\* C20 witness: an order taken through payment by webhook up to completion
C20_Witness ==
    /\ Len(orders) = 1
    /\ orders[1].status = "COMPLETED"
    /\ orders[1].pickupCodeUsed
    /\ Len(payments) >= 1
    /\ payments[1].status = "SUCCESS"
    /\ payments[1].transactionId = "W1"
    /\ payments[1].amount = orders[1].totalAmount

\* C21: update_menu_item, toggle_menu_availability and delete_menu_item
\* leave every stored order as it is: names, prices, quantities, veg flags
\* and totalAmount stay as snapshotted at creation.
C21_MenuEditsKeepOrders ==
    [][resp'.op \in {"update_menu_item", "toggle_menu_availability", "delete_menu_item"}
       => orders' = orders]_vars

\* C21 witness: an order holds m1 at the name, price and veg flag it was
\* created with, after m1 has been deleted from the menu
C21_Witness ==
    /\ resp.op = "delete_menu_item"
    /\ Succeeded(resp)
    /\ resp.id \notin DOMAIN menuitems
    /\ Len(orders) = 1
    /\ Len(orders[1].items) = 2
    /\ orders[1].items[1] =
          [menuItem |-> "m1", name |-> "m1", price |-> 50, quantity |-> 2, isVeg |-> TRUE]
    /\ orders[1].totalAmount = 130

\* C22: on the happy path (create, then initiate and confirm by the owner,
\* then accept, prepare, ready and complete with the stored code by the
\* staff of the canteen, nothing in between) every step succeeds; the
\* payment amount is the order total, the code issued at PAID is a 6-digit
\* code that accept, prepare and ready leave alone, and the order ends
\* COMPLETED with pickupCodeUsed true.
C22_HappyPathSucceeds ==
    [][/\ resp'.op # "create_order" => Succeeded(resp')
       /\ resp'.op = "initiate_payment"
          => /\ payments'[resp'.arg[1]].amount = orders[resp'.id].totalAmount
             /\ payments'[resp'.arg[1]].status = "PENDING"
       /\ resp'.op = "confirm_payment"
          => /\ payments'[resp'.id].status = "SUCCESS"
             /\ orders'[payments[resp'.id].orderId].status = "PAID"
             /\ orders'[payments[resp'.id].orderId].pickupCode \in generate_pickup_code
             /\ Len(orders'[payments[resp'.id].orderId].pickupCode) = 6
       /\ resp'.op \in {"accept", "prepare", "ready"}
          => orders'[resp'.id].pickupCode = orders[resp'.id].pickupCode
       /\ resp'.op = "accept" => orders'[resp'.id].status = "ACCEPTED"
       /\ resp'.op = "prepare" => orders'[resp'.id].status = "PREPARING"
       /\ resp'.op = "ready" => orders'[resp'.id].status = "READY"
       /\ resp'.op = "complete"
          => /\ orders'[resp'.id].status = "COMPLETED"
             /\ orders'[resp'.id].pickupCodeUsed]_vars

\* C22 witness: the order of 50 x 2 + 30 x 1 = 130 has gone the whole way
C22_Witness ==
    /\ resp.op = "complete"
    /\ Succeeded(resp)
    /\ orders[resp.id].totalAmount = 130
    /\ orders[resp.id].status = "COMPLETED"
    /\ orders[resp.id].pickupCodeUsed
    /\ \E p \in DOMAIN payments :
          /\ payments[p].orderId = resp.id
          /\ payments[p].amount = 130
          /\ payments[p].status = "SUCCESS"

\* C23: a successful ready on an order that holds a pickup code leaves the
\* code as it is; the code after ready differs from the one before only
\* when none was stored, and is then a generated one.
C23_ReadyKeepsCode ==
    [][(resp'.op = "ready" /\ Succeeded(resp'))
       => /\ orders[resp'.id].pickupCode # NoCode
             => orders'[resp'.id].pickupCode = orders[resp'.id].pickupCode
          /\ orders'[resp'.id].pickupCode # orders[resp'.id].pickupCode
             => /\ orders[resp'.id].pickupCode = NoCode
                /\ orders'[resp'.id].pickupCode \in generate_pickup_code]_vars

\* C23 witness: an order that holds a code has just been marked READY
C23_Witness ==
    /\ resp.op = "ready"
    /\ Succeeded(resp)
    /\ orders[resp.id].status = "READY"
    /\ orders[resp.id].pickupCode \in generate_pickup_code

RECURSIVE Turnover(_)
\* the sum of totalAmount over a set of orders
Turnover(os) ==
    IF os = {} THEN 0
    ELSE LET o == CHOOSE x \in os : TRUE IN
         orders[o].totalAmount + Turnover(os \ {o})

\* the COMPLETED orders of a canteen
CompletedAt(cid) ==
    {o \in DOMAIN orders : orders[o].canteenId = cid /\ orders[o].status = "COMPLETED"}

\* C24: get_canteen_completed_orders answers, for the canteen asked about,
\* dailyTotal = sum of totalAmount over its COMPLETED orders whose updatedAt
\* lies in the current day, monthlyTotal = the same sum over the current
\* month, and a list of exactly its COMPLETED orders; it changes no order
\* and no payment.  (A step that moves the clock is not a request.)
C24_EarningsAreSumsOfCompleted ==
    [][(resp'.op = "get_canteen_completed_orders" /\ now' = now)
       => /\ orders' = orders
          /\ payments' = payments
          /\ Succeeded(resp')
             => /\ resp'.arg[2] = Turnover({o \in CompletedAt(resp'.id) :
                       orders[o].updatedAt \div TicksPerDay = now \div TicksPerDay})
                /\ resp'.arg[3] = Turnover({o \in CompletedAt(resp'.id) :
                       orders[o].updatedAt \div (TicksPerDay * DaysPerMonth)
                           = now \div (TicksPerDay * DaysPerMonth)})
                /\ {resp'.arg[1][k] : k \in DOMAIN resp'.arg[1]} = CompletedAt(resp'.id)
                /\ Len(resp'.arg[1]) = Cardinality(CompletedAt(resp'.id))]_vars

\* C24 witness: the canteen has one order completed today and one completed
\* on an earlier day of the month, and an order that is not COMPLETED
C24_Witness ==
    /\ resp.op = "get_canteen_completed_orders"
    /\ Succeeded(resp)
    /\ resp.arg[2] > 0
    /\ resp.arg[3] > resp.arg[2]
    /\ Len(resp.arg[1]) = 2

\* the caller may see the order: its owner among the students, the staff of
\* its canteen among the canteen users, every admin
MayView(u, o) ==
    CASE Role(u) = "STUDENT" -> o.userId = u
      [] Role(u) = "CANTEEN" -> UserCanteen(u) = o.canteenId
      [] Role(u) = "ADMIN" -> TRUE
      [] OTHER -> FALSE

\* C25: get_order answers NotFound for a missing order; for a stored one it
\* returns the order to its owner (STUDENT), to the staff of its canteen
\* (CANTEEN) and to any ADMIN, and answers Forbidden to every other caller.
C25_GetOrderFollowsOwnership ==
    [][resp'.op = "get_order"
       => /\ orders' = orders
          /\ IF resp'.id \notin DOMAIN orders THEN resp'.code = 404
             ELSE IF MayView(resp'.caller, orders[resp'.id])
                  THEN resp'.code = 200 /\ resp'.arg = <<orders[resp'.id]>>
                  ELSE resp'.code = 403 /\ resp'.arg = <<>>]_vars

\* C25 witness: the staff of another canteen has just been refused an order
C25_Witness ==
    /\ resp.op = "get_order"
    /\ resp.code = 403
    /\ Role(resp.caller) = "CANTEEN"
    /\ resp.id \in DOMAIN orders
    /\ orders[resp.id].canteenId # UserCanteen(resp.caller)

\* C26: with the guard check and the write of complete as separate steps,
\* a complete request passes its guards only while no complete has been
\* written for the order, and once past them it writes and answers success
\* whatever has happened since; so two requests with the same correct code
\* that both pass the guards before either writes both succeed.
C26_CompleteGuardThenBlindWrite ==
    [][\A i \in 1..MaxInflight :
          /\ (inflight[i] = Idle /\ inflight'[i].op = "complete")
             => /\ completions[inflight'[i].oid] = 0
                /\ orders[inflight'[i].oid].status = "READY"
                /\ ~orders[inflight'[i].oid].pickupCodeUsed
                /\ inflight'[i].code = orders[inflight'[i].oid].pickupCode
          /\ (inflight[i].op = "complete" /\ inflight'[i] = Idle)
             => /\ resp'.op = "complete"
                /\ Succeeded(resp')
                /\ resp'.id = inflight[i].oid
                /\ completions'[resp'.id] = completions[resp'.id] + 1
                /\ orders'[resp'.id].status = "COMPLETED"]_vars

\* C26 witness: the second of two complete requests with the same code has
\* just answered success for an order that had been completed already
C26_Witness ==
    /\ resp.op = "complete"
    /\ Succeeded(resp)
    /\ completions[resp.id] = 2
    /\ resp.arg = orders[resp.id].pickupCode
    /\ orders[resp.id].status = "COMPLETED"

\* C27: with the read and the write of each transition as separate steps,
\* a handler writes the status of an order only while the order still has
\* the status that the handler's guard observed.
C27_NoStaleStatusWrite ==
    [][\A i \in TransitionWorkers :
          (inflight[i].op \in TransitionOps /\ inflight'[i] = Idle)
          => orders[inflight[i].oid].status = inflight[i].seen]_vars

\* the status an order must have for a step to give it the status s
Predecessor(s) ==
    CASE s = "ACCEPTED" -> "PAID"
      [] s = "PREPARING" -> "ACCEPTED"
      [] s = "READY" -> "PREPARING"
      [] s = "COMPLETED" -> "READY"

\* C28: with each request one atomic step, no status of the serving chain
\* is skipped: an order is created CREATED, and a step gives it the status
\* ACCEPTED, PREPARING, READY or COMPLETED only when it has the status just
\* before in PAID, ACCEPTED, PREPARING, READY, COMPLETED.  Hence a COMPLETED
\* order has held PAID, ACCEPTED, PREPARING and READY in that order, and a
\* READY order has been PREPARING.
C28_NoSkipping ==
    [][/\ \A o \in DOMAIN orders' \ DOMAIN orders : orders'[o].status = "CREATED"
       /\ \A o \in DOMAIN orders :
             (/\ orders'[o].status # orders[o].status
              /\ orders'[o].status \in {"ACCEPTED", "PREPARING", "READY", "COMPLETED"})
             => orders[o].status = Predecessor(orders'[o].status)]_vars

\* C28 witness: an order has just been completed
C28_Witness ==
    /\ resp.op = "complete"
    /\ Succeeded(resp)
    /\ orders[resp.id].status = "COMPLETED"
    /\ completions[resp.id] = 1

\* C29: with each request one atomic step, an order that has held status
\* PREPARING, READY or COMPLETED never has status CANCELLED afterwards.
\* completions[o] counts the times o has become COMPLETED, so an order
\* with a completion behind it has held a status the claim speaks of.
C29_NoCancelAfterPreparing ==
    \A o \in DOMAIN orders : completions[o] > 0 => orders[o].status # "CANCELLED"

\* C30: in every state, also while handlers are between their read and
\* their write, an order with status COMPLETED has pickupCodeUsed = true.
C30_CompletedIsUsed ==
    \A o \in DOMAIN orders : orders[o].status = "COMPLETED" => orders[o].pickupCodeUsed

\* C30 witness: an order is COMPLETED while a handler that read it earlier
\* has not written yet
C30_Witness ==
    \E o \in DOMAIN orders, i \in TransitionWorkers :
        /\ orders[o].status = "COMPLETED"
        /\ orders[o].pickupCodeUsed
        /\ inflight[i].op \in TransitionOps
        /\ inflight[i].oid = o

RECURSIVE Numeral(_)
\* the number that a sequence of decimal digits writes
Numeral(ds) ==
    IF ds = <<>> THEN 0
    ELSE 10 * Numeral(SubSeq(ds, 1, Len(ds) - 1)) + ds[Len(ds)]

\* a decimal string of an integer between 100000 and 999999
SixDigitCode(code) ==
    /\ Len(code) = 6
    /\ \A k \in 1..Len(code) : code[k] \in 0..9
    /\ Numeral(code) >= 100000
    /\ Numeral(code) <= 999999

\* C31: in every state an order with status CREATED has pickupCode null,
\* and an order with status PAID, ACCEPTED, PREPARING, READY or COMPLETED
\* has a pickupCode that is the decimal string of an integer between 100000
\* and 999999.
C31_CodeMatchesStatus ==
    \A o \in DOMAIN orders :
        /\ orders[o].status = "CREATED" => orders[o].pickupCode = NoCode
        /\ orders[o].status \in {"PAID", "ACCEPTED", "PREPARING", "READY", "COMPLETED"}
           => orders[o].pickupCode # NoCode /\ SixDigitCode(orders[o].pickupCode)

\* C31 witness: an order paid through the webhook has been served up to
\* READY and holds the largest code
C31_Witness ==
    \E o \in DOMAIN orders :
        /\ orders[o].status = "READY"
        /\ Numeral(orders[o].pickupCode) = 999999
        /\ \E p \in DOMAIN payments : payments[p].orderId = o /\ payments[p].transactionId = "W1"

\* C32: a paytm_webhook call for an order that has a payment sets that
\* payment to SUCCESS on TXN_SUCCESS and to FAILED on every other provider
\* status; on SUCCESS the order becomes PAID with a pickup code, on FAILED
\* it becomes FAILED; pickupCodeUsed, the other fields, and every other
\* order and payment stay as they are.
C32_WebhookSettles ==
    [][(/\ resp'.op = "paytm_webhook"
        /\ \E p \in DOMAIN payments : payments[p].orderId = resp'.id)
       => LET oid == resp'.id
              settled == IF resp'.arg[1] = "TXN_SUCCESS" THEN "SUCCESS" ELSE "FAILED" IN
          /\ Succeeded(resp')
          /\ Len(payments') = Len(payments)
          /\ Len(orders') = Len(orders)
          /\ \E p \in DOMAIN payments :
                /\ payments[p].orderId = oid
                /\ payments'[p].status = settled
                /\ payments'[p].orderId = oid
                /\ payments'[p].userId = payments[p].userId
                /\ payments'[p].amount = payments[p].amount
                /\ \A q \in DOMAIN payments \ {p} : payments'[q] = payments[q]
          /\ orders'[oid].status = (IF settled = "SUCCESS" THEN "PAID" ELSE "FAILED")
          /\ IF settled = "SUCCESS"
             THEN SixDigitCode(orders'[oid].pickupCode)
             ELSE orders'[oid].pickupCode = orders[oid].pickupCode
          /\ orders'[oid].pickupCodeUsed = orders[oid].pickupCodeUsed
          /\ orders'[oid].items = orders[oid].items
          /\ orders'[oid].totalAmount = orders[oid].totalAmount
          /\ orders'[oid].userId = orders[oid].userId
          /\ orders'[oid].canteenId = orders[oid].canteenId
          /\ \A o \in DOMAIN orders \ {oid} : orders'[o] = orders[o]]_vars

\* C32 witness: a status that is neither success nor failure has just
\* failed the payment and the order, next to an untouched second order
C32_Witness ==
    /\ resp.op = "paytm_webhook"
    /\ Succeeded(resp)
    /\ resp.arg[1] = "PENDING"
    /\ orders[resp.id].status = "FAILED"
    /\ payments[resp.id].status = "FAILED"
    /\ \E o \in DOMAIN orders : o # resp.id /\ orders[o].status = "CREATED"

\* C33: confirm_payment succeeds exactly when the payment exists, the
\* caller is its owner (an ADMIN who is not the owner is rejected) and its
\* status is PENDING; a rejected confirm, the second confirm of a payment
\* among them, changes neither payments nor orders.
C33_ConfirmOnlyByOwnerWhilePending ==
    [][resp'.op = "confirm_payment"
       => /\ Succeeded(resp')
             <=> /\ resp'.id \in DOMAIN payments
                 /\ payments[resp'.id].userId = resp'.caller
                 /\ payments[resp'.id].status = "PENDING"
          /\ ~Succeeded(resp') => payments' = payments /\ orders' = orders
          /\ (resp'.id \in DOMAIN payments /\ payments[resp'.id].userId # resp'.caller)
             => resp'.code = 403]_vars

\* C33 witness: the owner's second confirm of a payment confirmed before has
\* just been rejected
C33_Witness ==
    /\ resp.op = "confirm_payment"
    /\ resp.code = 400
    /\ resp.id \in DOMAIN payments
    /\ payments[resp.id].userId = resp.caller
    /\ payments[resp.id].status = "SUCCESS"
    /\ payments[resp.id].transactionId = MockTransactionId
    /\ orders[payments[resp.id].orderId].status = "PAID"

\* C34: in every state every payment's amount equals the totalAmount of
\* the order it references.
C34_AmountIsOrderTotal ==
    \A p \in DOMAIN payments :
        /\ payments[p].orderId \in DOMAIN orders
        /\ payments[p].amount = orders[payments[p].orderId].totalAmount

\* C34 witness: the payment of 51 portions at 20 is confirmed
C34_Witness ==
    \E p \in DOMAIN payments :
        /\ payments[p].amount = 1020
        /\ payments[p].status = "SUCCESS"
        /\ orders[payments[p].orderId].totalAmount = 1020

\* C35: with each request one atomic step, in every state an order with
\* status READY has pickupCodeUsed = false, so that complete with its stored
\* code succeeds.
C35_ReadyIsRedeemable ==
    \A o \in DOMAIN orders : orders[o].status = "READY" => ~orders[o].pickupCodeUsed

\* C36: once an order's status is COMPLETED, no later operation changes its
\* status.
C36_CompletedIsTerminal ==
    [][\A o \in DOMAIN orders :
          orders[o].status = "COMPLETED" => orders'[o].status = "COMPLETED"]_vars

\* the payments that reference order o
PaymentsOf(o) == {p \in DOMAIN payments : payments[p].orderId = o}

Fulfilment == {"PAID", "ACCEPTED", "PREPARING", "READY", "COMPLETED"}

\* C37: with each request one atomic step, in every state an order whose
\* status is PAID, ACCEPTED, PREPARING, READY or COMPLETED has a payment with
\* status SUCCESS referencing it.
C37_NoFulfilmentWithoutPayment ==
    \A o \in DOMAIN orders :
        orders[o].status \in Fulfilment
            => \E p \in PaymentsOf(o) : payments[p].status = "SUCCESS"

\* C37 witness: an order paid by a notification of the provider is served
\* to the end
C37_Witness ==
    \E o \in DOMAIN orders :
        /\ orders[o].status = "COMPLETED"
        /\ \E p \in PaymentsOf(o) :
              /\ payments[p].status = "SUCCESS"
              /\ payments[p].transactionId \in ProviderTxnIds

\* C38: with each request one atomic step, in every state at most one
\* payment record, of any status, references an order; the payment that
\* paytm_webhook finds by the order identifier is that one.
C38_OnePaymentPerOrder ==
    \A o \in DOMAIN orders :
        /\ Cardinality(PaymentsOf(o)) <= 1
        /\ PaymentsOf(o) # {} => PaymentsOf(o) = {PaymentOfOrder(o)}

\* C38 witness: the owner asks for a second payment of an order whose only
\* payment has failed, and is refused
C38_Witness ==
    /\ resp.op = "initiate_payment"
    /\ resp.id \in DOMAIN orders
    /\ resp.caller = orders[resp.id].userId
    /\ resp.code = 400
    /\ Len(payments) < MaxPayments
    /\ \E p \in PaymentsOf(resp.id) : payments[p].status = "FAILED"

\* a request that names no item, or an item with a quantity below 1
Malformed(items) == items = <<>> \/ \E i \in DOMAIN items : items[i].quantity < 1

\* C39: every order that create_order persists has at least one line item,
\* every line quantity is at least 1 and its totalAmount is not negative; a
\* request with an empty item list or a zero or negative quantity persists
\* no order.
C39_OrdersAreWellFormed ==
    [][resp'.op = "create_order" =>
          /\ \A o \in DOMAIN orders' \ DOMAIN orders :
                /\ Len(orders'[o].items) >= 1
                /\ \A i \in DOMAIN orders'[o].items : orders'[o].items[i].quantity >= 1
                /\ orders'[o].totalAmount >= 0
          /\ Malformed(resp'.arg[2]) => orders' = orders]_vars

====
